---- MODULE Spec2Model ----
(***************************************************************************)
(* Verification model of the executable pieces of the website repository:  *)
(*   - the A/B variant hook useAbTest (src/app/new-homepage/page.tsx),      *)
(*   - the step-function examples of the documentation and blog pages,     *)
(*     run on the step executor the pages describe,                        *)
(*   - the REST polling helper getRunOutput.                               *)
(* Each part has its own specification over the shared variables; the      *)
(* variables of the other parts stay at their initial values.              *)
(***************************************************************************)
EXTENDS Integers, Sequences, FiniteSets, TLC

VARIABLES
    storage,        \* localStorage["inngest-anon-id"]: Null or a string value
    hooks,          \* per mount of useAbTest: React hook cells and history
    inngestEvents,  \* events handed to window.Inngest.event, in order
    returned,       \* every <<anonId, experimentName, variant>> the hook returned
    \* one function run on the step executor
    fn,             \* the function the run executes
    trigger,        \* the event that triggered the run
    deletions,      \* reminder deletion events sent so far, in order
    db,             \* the workflow the database holds for the account
    memo,           \* function run state: step hash -> memoized result
    runStatus,      \* "running", "sleeping", "waiting", "completed", "failed"
    pending,        \* the sleep or wait the run is paused on
    pc,             \* position of the handler in the current invocation
    locals,         \* the handler's local variables in this invocation
    seen,           \* step hashes the SDK met so far in this invocation
    invocations,    \* number of times the handler was started
    newSteps,       \* steps newly executed or reported in this invocation
    attempts,       \* every execution of a step callback, with its outcome
    effects,        \* side effects of the run, in order
    result,         \* what the run returned or threw
    \* getRunOutput
    pollPc,         \* position in getRunOutput
    runs,           \* the list the last getRuns call returned
    polls,          \* number of getRuns calls made
    observed,       \* the status of runs[0] each getRuns call showed
    output,         \* the run getRunOutput returned, or the error it threw
    \* step encryption middleware
    stepResults,    \* what the step callbacks returned, in order
    sentSteps,      \* the step data that left the server, in order
    ctxSteps,       \* the step data the handler got in the last invocation
    sentReturn      \* the function's own result as it left the server

abVars == <<storage, hooks, inngestEvents, returned>>

runVars == <<fn, trigger, deletions, db, memo, runStatus, pending, pc,
             locals, seen, invocations, newSteps, attempts, effects, result>>

pollVars == <<pollPc, runs, polls, observed, output>>

encVars == <<stepResults, sentSteps, ctxSteps, sentReturn>>

vars == <<abVars, runVars, pollVars, encVars>>

----------------------------------------------------------------------------
(* JavaScript values used by the hook *)

Null == [t |-> "null"]
Undefined == [t |-> "undefined"]
Str(chars) == [t |-> "string", chars |-> chars]
Bool(b) == [t |-> "boolean", b |-> b]
Num(n) == [t |-> "number", n |-> n]

\* JavaScript truthiness, as used by `&&`, `!`, `if` and Boolean()
Truthy(v) ==
    CASE v.t = "boolean" -> v.b
      [] v.t = "number" -> v.n # 0
      [] v.t = "string" -> v.chars # <<>>
      [] v.t \in {"null", "undefined"} -> FALSE
      [] OTHER -> TRUE

\* character codes of the literals that appear in the template literal
CharsUndefined == <<117, 110, 100, 101, 102, 105, 110, 101, 100>>
CharsUnderscore == <<95>>
CharsHeader == <<104, 101, 97, 100, 101, 114>>
CharsFooter == <<102, 111, 111, 116, 101, 114>>

\* `${x}` : string conversion of a template-literal operand
TemplateStringNull(v) ==
    IF v.t = "string" THEN v.chars ELSE <<110, 117, 108, 108>>

TemplateString(v) == IF v.t = "string" THEN v.chars ELSE CharsUndefined

\* the values the variables of a part hold while another part is explored
AbIdle ==
    /\ storage = Null
    /\ hooks = <<>>
    /\ inngestEvents = <<>>
    /\ returned = {}

RunIdle ==
    /\ fn = "none"
    /\ trigger = Undefined
    /\ deletions = <<>>
    /\ db = Null
    /\ memo = <<>>
    /\ runStatus = "none"
    /\ pending = <<>>
    /\ pc = "idle"
    /\ locals = <<>>
    /\ seen = <<>>
    /\ invocations = 0
    /\ newSteps = 0
    /\ attempts = <<>>
    /\ effects = <<>>
    /\ result = Undefined

PollIdle ==
    /\ pollPc = "none"
    /\ runs = <<>>
    /\ polls = 0
    /\ observed = <<>>
    /\ output = Undefined

EncIdle ==
    /\ stepResults = <<>>
    /\ sentSteps = <<>>
    /\ ctxSteps = <<>>
    /\ sentReturn = Undefined

----------------------------------------------------------------------------
(* Bounds *)

MaxMounts == 2      \* hook instances that may be mounted
MaxRenders == 3     \* renders explored in all, first renders included

Mounts == 1..MaxMounts

\* anonymous ids that may sit in local storage: "a", "b"
AnonIds == {Str(<<97>>), Str(<<98>>)}

----------------------------------------------------------------------------
(* useAbTest *)

ExperimentNames == {"header", "footer"}

abExperiments ==
    [header |-> <<"kill-queues-headline", "event-driven-headerline">>,
     footer |-> <<"removed", "highlighted">>]

NameChars(experimentName) ==
    IF experimentName = "header" THEN CharsHeader ELSE CharsFooter

HashModulus == 2 ^ 16

RECURSIVE HashFrom(_, _)
HashFrom(h, chars) ==
    IF chars = <<>> THEN h
    ELSE HashFrom((h * 31 + Head(chars)) % HashModulus, Tail(chars))

\* deterministic-split: a fixed hash of the key picks the variant
deterministicSplit(key, variants) ==
    variants[(HashFrom(0, key) % Len(variants)) + 1]

\* `${anonId}_${experimentName}`
SplitKey(anonId, experimentName) ==
    TemplateString(anonId) \o CharsUnderscore \o NameChars(experimentName)

\* useLocalStorage<string>("inngest-anon-id") with no initial value: the
\* state is what the key holds at the first render, undefined when absent;
\* nothing is written.
UseLocalStoragePersisting(stored) ==
    IF stored = Null
    THEN [value |-> Str(<<97>>), stored |-> Str(<<97>>)]
    ELSE [value |-> stored, stored |-> stored]

useLocalStorage(stored) ==
    [value |-> IF stored = Null THEN Undefined ELSE stored, stored |-> stored]

\* dependency lists of the two hooks
MemoDepsWithoutExperiment(anonId, experimentName) == <<anonId>>

MemoDeps(anonId, experimentName) == <<anonId, experimentName>>

EffectDepsEmpty(variant, anonId, experimentName) == <<>>

EffectDeps(variant, anonId, experimentName) ==
    <<variant, anonId, experimentName>>

\* React re-runs a memo or an effect on the first render and whenever a
\* dependency differs from the previous render's
DepsChangedFirstOnly(first, prevDeps, nextDeps) == first

DepsChanged(first, prevDeps, nextDeps) == first \/ prevDeps # nextDeps

\* the payload handed to window.Inngest.event
ExperimentViewedWithoutData(i, anonId, experimentName, variant) ==
    [name |-> "app/experiment.viewed",
     data |-> [anonymous_id |-> Undefined, experiment |-> "", variant |-> ""],
     mount |-> i]

ExperimentViewed(i, anonId, experimentName, variant) ==
    [name |-> "app/experiment.viewed",
     data |-> [anonymous_id |-> anonId, experiment |-> experimentName,
               variant |-> variant],
     mount |-> i]

NoHook ==
    [status |-> "new", renders |-> 0, experimentName |-> "header",
     anonId |-> Undefined, memoDeps |-> <<>>, variant |-> "",
     effectDeps |-> <<>>, resolved |-> 0, nameChanges |-> 0,
     storedBefore |-> Null, storedAfter |-> Null]

\* One render of useAbTest(experimentName), with the effect React commits
\* after it.  h is the hook's cell before the render; the result holds the
\* cell after it and the events the effect handed to window.Inngest.event.
RenderHook(i, h, anonId, experimentName, first) ==
    LET memoDeps == MemoDeps(anonId, experimentName)
        recompute == DepsChanged(first, h.memoDeps, memoDeps)
        variant == IF recompute
                   THEN deterministicSplit(SplitKey(anonId, experimentName),
                                           abExperiments[experimentName])
                   ELSE h.variant
        effectDeps == EffectDeps(variant, anonId, experimentName)
        runEffect == DepsChanged(first, h.effectDeps, effectDeps)
        ev == ExperimentViewed(i, anonId, experimentName, variant)
    IN  [cell |-> [h EXCEPT !.status = "mounted",
                            !.renders = h.renders + 1,
                            !.experimentName = experimentName,
                            !.anonId = anonId,
                            !.memoDeps = memoDeps,
                            !.variant = variant,
                            !.effectDeps = effectDeps,
                            !.resolved = IF recompute THEN h.resolved + 1
                                         ELSE h.resolved,
                            !.nameChanges =
                                IF ~first /\ h.experimentName # experimentName
                                THEN h.nameChanges + 1 ELSE h.nameChanges],
         events |-> IF runEffect THEN <<ev>> ELSE <<>>]

Returned(cell) == <<cell.anonId, cell.experimentName, cell.variant>>

RECURSIVE RendersUpTo(_)
RendersUpTo(i) == IF i = 0 THEN 0 ELSE hooks[i].renders + RendersUpTo(i - 1)

TotalRenders == RendersUpTo(MaxMounts)

\* first render of a component that calls useAbTest(experimentName)
Mount(i, experimentName) ==
    /\ hooks[i].status = "new"
    /\ TotalRenders < MaxRenders
    /\ LET ls == useLocalStorage(storage)
           r == RenderHook(i, [hooks[i] EXCEPT !.storedBefore = storage,
                                               !.storedAfter = ls.stored],
                           ls.value, experimentName, TRUE)
       IN  /\ storage' = ls.stored
           /\ hooks' = [hooks EXCEPT ![i] = r.cell]
           /\ inngestEvents' = inngestEvents \o r.events
           /\ returned' = returned \cup {Returned(r.cell)}
    /\ UNCHANGED <<runVars, pollVars, encVars>>

\* a later render whose memo and effect run as on a first render
RerenderAsFirst(i, experimentName) ==
    /\ hooks[i].status = "mounted"
    /\ TotalRenders < MaxRenders
    /\ LET r == RenderHook(i, hooks[i], hooks[i].anonId, experimentName, TRUE)
       IN  /\ hooks' = [hooks EXCEPT ![i] = r.cell]
           /\ inngestEvents' = inngestEvents \o r.events
           /\ returned' = returned \cup {Returned(r.cell)}
    /\ UNCHANGED <<storage, runVars, pollVars, encVars>>

\* a later render of the same mount; the caller may pass another experiment
Rerender(i, experimentName) ==
    /\ hooks[i].status = "mounted"
    /\ TotalRenders < MaxRenders
    /\ LET r == RenderHook(i, hooks[i], hooks[i].anonId, experimentName, FALSE)
       IN  /\ hooks' = [hooks EXCEPT ![i] = r.cell]
           /\ inngestEvents' = inngestEvents \o r.events
           /\ returned' = returned \cup {Returned(r.cell)}
    /\ UNCHANGED <<storage, runVars, pollVars, encVars>>

Unmount(i) ==
    /\ hooks[i].status = "mounted"
    /\ hooks' = [hooks EXCEPT ![i].status = "unmounted"]
    /\ UNCHANGED <<storage, inngestEvents, returned, runVars, pollVars, encVars>>

\* other scripts of the page store or clear the visitor's anonymous id
StoreAnonId(id) ==
    /\ storage # id
    /\ storage' = id
    /\ UNCHANGED <<hooks, inngestEvents, returned, runVars, pollVars, encVars>>

ClearAnonId ==
    /\ storage # Null
    /\ storage' = Null
    /\ UNCHANGED <<hooks, inngestEvents, returned, runVars, pollVars, encVars>>

InitAb ==
    /\ storage \in AnonIds \cup {Null}
    /\ hooks = [i \in Mounts |-> NoHook]
    /\ inngestEvents = <<>>
    /\ returned = {}
    /\ RunIdle
    /\ PollIdle
    /\ EncIdle

NextAb ==
    \/ \E i \in Mounts, e \in ExperimentNames : Mount(i, e)
    \/ \E i \in Mounts, e \in ExperimentNames : Rerender(i, e)
    \/ \E i \in Mounts : Unmount(i)
    \/ \E id \in AnonIds : StoreAnonId(id)
    \/ ClearAnonId

SpecAb == InitAb /\ [][NextAb]_vars

----------------------------------------------------------------------------
(* Properties of useAbTest *)

Rendered(i) == hooks[i].status # "new"

Labels(experimentName) ==
    {abExperiments[experimentName][k] :
        k \in 1..Len(abExperiments[experimentName])}

EventsOfMount(i) == SelectSeq(inngestEvents, LAMBDA ev : ev.mount = i)

\* C1: the variant returned by useAbTest depends only on the pair
\* (anonymous id, experiment name): any two returns of the hook, in any
\* mounts and after any earlier renders, with the same pair agree.
VariantDependsOnlyOnIdAndExperiment ==
    \A x, y \in returned :
        (x[1] = y[1] /\ x[2] = y[2]) => x[3] = y[3]

\* two mounts returned a variant for the same pair, one of them after it had
\* rendered another experiment first
SamePairAfterDifferentHistories ==
    \E i, j \in Mounts :
        /\ i # j /\ Rendered(i) /\ Rendered(j)
        /\ hooks[i].anonId = hooks[j].anonId
        /\ hooks[i].experimentName = hooks[j].experimentName
        /\ hooks[i].nameChanges > 0
        /\ hooks[j].nameChanges = 0

\* C2 as stated: within one mount no second event is emitted for the same
\* experiment and variant.
NoSecondEventForSameVariant ==
    \A i \in Mounts :
        \A m, n \in 1..Len(EventsOfMount(i)) :
            (/\ EventsOfMount(i)[m].data.experiment
                    = EventsOfMount(i)[n].data.experiment
             /\ EventsOfMount(i)[m].data.variant
                    = EventsOfMount(i)[n].data.variant) => m = n

\* C2, amended: within one mount one event is emitted for each resolution of
\* the variant, that is one on the first render and one more for each render
\* whose experiment name differs from the previous render's; a re-render
\* with the experiment name unchanged emits nothing.
OneEventPerResolvedVariant ==
    \A i \in Mounts :
        Rendered(i) =>
            /\ Len(EventsOfMount(i)) = hooks[i].resolved
            /\ Len(EventsOfMount(i)) = 1 + hooks[i].nameChanges

\* a mount that re-rendered once with the name unchanged and once with the
\* name changed
RerenderedWithAndWithoutChange ==
    \E i \in Mounts :
        hooks[i].renders = 3 /\ hooks[i].nameChanges = 1

\* C3: the variant returned for experiment e is one of abExperiments[e] and
\* no label of another experiment.
VariantIsLabelOfItsExperiment ==
    \A i \in Mounts :
        Rendered(i) =>
            /\ hooks[i].variant \in Labels(hooks[i].experimentName)
            /\ \A e \in ExperimentNames \ {hooks[i].experimentName} :
                    hooks[i].variant \notin Labels(e)

\* a mount whose experiment changed from header to footer, and every label
\* of the header experiment has been returned
FooterAfterHeader ==
    /\ \E i \in Mounts :
            hooks[i].nameChanges > 0 /\ hooks[i].experimentName = "footer"
    /\ \A l \in Labels("header") : \E x \in returned : x[3] = l

\* C4 as stated: after the hook has mounted, the key holds the identifier
\* that was used to compute the variant.
KeyHoldsUsedIdAfterMount ==
    \A i \in Mounts :
        Rendered(i) => hooks[i].storedAfter = hooks[i].anonId

\* C4, amended: the hook only reads the key.  Mounting leaves the key as
\* it was, and the identifier used to compute the variant is the one the key
\* held at the mount, undefined when the key was absent.
HookOnlyReadsAnonId ==
    \A i \in Mounts :
        Rendered(i) =>
            /\ hooks[i].storedAfter = hooks[i].storedBefore
            /\ hooks[i].anonId = IF hooks[i].storedBefore = Null
                                 THEN Undefined ELSE hooks[i].storedBefore
            /\ hooks[i].memoDeps[1] = hooks[i].anonId

\* one mount found the key absent, another found an id in it
MountedWithAndWithoutStoredId ==
    \E i, j \in Mounts :
        /\ Rendered(i) /\ hooks[i].storedBefore = Null
        /\ Rendered(j) /\ hooks[j].storedBefore \in AnonIds

\* C16: a re-render of a mount hands one more event to window.Inngest.event
\* when the variant, the anonymous id or the experiment name differs from
\* the previous render of that mount, and none when all three are the same.
EffectRerunsExactlyOnChange ==
    [][\A i \in Mounts :
          (hooks[i].status = "mounted"
           /\ hooks'[i].renders = hooks[i].renders + 1) =>
              Len(inngestEvents') - Len(inngestEvents)
                  = IF Returned(hooks'[i]) # Returned(hooks[i]) THEN 1 ELSE 0
      ]_vars

\* a mount rendered three times, once with everything unchanged and once
\* with the experiment changed from header to footer: two events
EmittedAgainOnlyOnThirdRender ==
    \E i \in Mounts :
        /\ hooks[i].renders = 3
        /\ hooks[i].experimentName = "footer"
        /\ Len(EventsOfMount(i)) = 2
        /\ EventsOfMount(i)[1].data.experiment = "header"
        /\ EventsOfMount(i)[2].data.experiment = "footer"

\* C17: every event a render of useAbTest emits is named
\* "app/experiment.viewed" and carries the experiment name passed to that
\* render, the anonymous id the hook read from storage, and the variant that
\* render returns.
EventCarriesWhatTheRenderReturns ==
    [][\A i \in Mounts :
          hooks'[i].renders = hooks[i].renders + 1 =>
              \A k \in (Len(inngestEvents) + 1)..Len(inngestEvents') :
                  /\ inngestEvents'[k].name = "app/experiment.viewed"
                  /\ inngestEvents'[k].data.experiment
                        = hooks'[i].experimentName
                  /\ inngestEvents'[k].data.variant = hooks'[i].variant
                  /\ inngestEvents'[k].data.anonymous_id
                        = IF hooks'[i].storedBefore = Null THEN Undefined
                          ELSE hooks'[i].storedBefore
                  /\ <<inngestEvents'[k].data.anonymous_id,
                       inngestEvents'[k].data.experiment,
                       inngestEvents'[k].data.variant>> \in returned'
      ]_vars

\* a mount that read a stored id emitted a header event and, after its
\* experiment changed, a footer event, each with that id
StoredIdSentWithBothExperiments ==
    \E i \in Mounts :
        /\ hooks[i].storedBefore \in AnonIds
        /\ Len(EventsOfMount(i)) = 2
        /\ EventsOfMount(i)[1].data
              = [anonymous_id |-> hooks[i].storedBefore,
                 experiment |-> "header",
                 variant |-> EventsOfMount(i)[1].data.variant]
        /\ EventsOfMount(i)[2].data
              = [anonymous_id |-> hooks[i].storedBefore,
                 experiment |-> "footer", variant |-> hooks[i].variant]

\* the key of a visitor with no stored id: "undefined_" and the experiment
UndefinedKey(experimentName) ==
    <<117, 110, 100, 101, 102, 105, 110, 101, 100, 95>>
        \o NameChars(experimentName)

\* C18: a mount that found no "inngest-anon-id" in local storage has, from
\* its first render on, a variant resolved from the key
\* "undefined_<experiment>", the same for every such mount of an experiment,
\* and has emitted its event with anonymous_id undefined.
NoStoredIdStillResolvesAndEmits ==
    \A i \in Mounts :
        (Rendered(i) /\ hooks[i].storedBefore = Null) =>
            /\ hooks[i].variant
                  = deterministicSplit(UndefinedKey(hooks[i].experimentName),
                                       abExperiments[hooks[i].experimentName])
            /\ Len(EventsOfMount(i)) >= 1
            /\ \A k \in 1..Len(EventsOfMount(i)) :
                  EventsOfMount(i)[k].data.anonymous_id = Undefined
            /\ EventsOfMount(i)[Len(EventsOfMount(i))].data.variant
                  = hooks[i].variant
            /\ \A j \in Mounts :
                  (/\ Rendered(j) /\ hooks[j].storedBefore = Null
                   /\ hooks[j].experimentName = hooks[i].experimentName)
                      => hooks[j].variant = hooks[i].variant

\* two visitors without a stored id mounted the same experiment, each on its
\* first render, and an id was stored only afterwards
TwoVisitorsWithoutIdSameExperiment ==
    \E i, j \in Mounts :
        /\ i # j
        /\ hooks[i].storedBefore = Null /\ hooks[j].storedBefore = Null
        /\ hooks[i].renders = 1 /\ hooks[j].renders = 1
        /\ hooks[i].experimentName = hooks[j].experimentName
        /\ Len(inngestEvents) = 2
        /\ storage \in AnonIds

----------------------------------------------------------------------------
(* Step functions: the handlers of the documentation and blog pages *)

MaxActions == 2     \* longest workflow.actions list the database may hold
MaxFailures == 1    \* step attempts that may throw during one run
MaxLost == 1        \* result reports that may be lost during one run

\* the triggering event: event.data.userId and event.data.status
TriggerUser == "u1"
TriggerStatus == "proposal_created"

Users == {"u1", "u2"}

\* an element of workflow.actions: its type tag (action._type in the blog
\* post, action.type in the guide) and the fields the handlers read
Action(type, value, template) ==
    [t |-> "object", type |-> type, value |-> value, template |-> template]

Workflow(actions) == [t |-> "object", actions |-> actions]

\* the action types the Sanity schema of the blog post defines, a filter
\* that matches the event and one that does not, and a type the switch of
\* newAccount does not know
SanityActions ==
    {Action("delay", "1d", ""), Action("sendEmail", "", "welcome"),
     Action("filter", TriggerStatus, ""), Action("filter", "lost", ""),
     Action("slack", "", ""), Action("webhook", "", "")}

\* the action types of the guide's sample workflow
GuideActions ==
    {Action("filter", TriggerStatus, ""), Action("filter", "lost", ""),
     Action("email", "", "proposal"), Action("slack", "", ""),
     Action("wait", "", "")}

RECURSIVE SeqsUpTo(_, _)
SeqsUpTo(S, n) ==
    IF n = 0 THEN {<<>>}
    ELSE SeqsUpTo(S, n - 1)
         \cup {Append(q, x) : q \in {r \in SeqsUpTo(S, n - 1) : Len(r) = n - 1},
                               x \in S}

NoLocals ==
    [workflow |-> Undefined, actions |-> <<>>, shouldContinue |-> Undefined,
     action |-> Undefined, waited |-> Undefined, alertId |-> Undefined,
     userId |-> Undefined]

\* side effects the callbacks and the handler bodies have
Email(template) == [kind |-> "email", what |-> template]
Slack == [kind |-> "slack", what |-> "notification"]
LogLine(msg) == [kind |-> "log", what |-> msg]
AlertCreated == [kind |-> "alert", what |-> "created"]
SlackLink(alertId) ==
    [kind |-> "slack",
     what |-> IF alertId.t = "string" THEN "link to alert"
              ELSE "link to undefined"]

\* what the handler does next at a position, given its local variables
RunStep(id, effect, value, bind, next) ==
    [kind |-> "run", id |-> id, effect |-> effect, value |-> value,
     bind |-> bind, assign |-> "", next |-> next]
\* a step whose callback returns nothing and assigns what it computed to a
\* variable of the handler's closure
RunStepAssigning(id, effect, value, assign, next) ==
    [kind |-> "run", id |-> id, effect |-> effect, value |-> value,
     bind |-> "", assign |-> assign, next |-> next]
SleepStep(id, next) ==
    [kind |-> "sleep", id |-> id, bind |-> "", next |-> next]
WaitStep(id, eventName, bind, next) ==
    [kind |-> "wait", id |-> id, event |-> eventName, bind |-> bind,
     next |-> next]
LogStmt(msg, next) == [kind |-> "log", effect |-> LogLine(msg), next |-> next]
LocalStmt(l, next) == [kind |-> "local", locals |-> l, next |-> next]
ReturnStmt(value) == [kind |-> "return", value |-> value]
ThrowStmt(error) == [kind |-> "throw", error |-> error]

\* `!x`
NegateFlipped(v) == Truthy(v)

Negate(v) == ~Truthy(v)

\* example-fn.ts of the logging guide
exampleFn(p, l) ==
    CASE p = "top" -> LogStmt("something", "fn")
      [] p = "fn" ->
            RunStep("fn", <<LogLine("something else")>>, Null, "", "second")
      [] p = "second" -> RunStep("second", <<>>, Null, "", "end")
      [] OTHER -> ReturnStmt(Undefined)

\* activation-email of the multi-step guide
activationEmail(p, l) ==
    CASE p = "top" ->
            RunStep("send-welcome-email", <<Email("welcome")>>, Null, "",
                    "wait")
      [] p = "wait" ->
            WaitStep("wait-for-post-creation", "app/post.created", "waited",
                     "if")
      [] p = "if" ->
            LocalStmt(l, IF Negate(l.waited) THEN "reminder" ELSE "end")
      [] p = "reminder" ->
            RunStep("send-reminder-email", <<Email("reminder")>>, Null, "",
                    "end")
      [] OTHER -> ReturnStmt(Undefined)

\* onboarding-email-drip-campaign of the step.waitForEvent reference
onboardingEmailDripCampaign(p, l) ==
    CASE p = "top" ->
            RunStep("send-welcome-email", <<Email("welcome")>>, Null, "",
                    "wait")
      [] p = "wait" ->
            WaitStep("wait-for-onboarding", "app/onboarding.completed",
                     "waited", "if")
      [] p = "if" ->
            LocalStmt(l, IF Negate(l.waited) THEN "nudge" ELSE "tips")
      [] p = "nudge" ->
            RunStep("send-onboarding-nudge-email",
                    <<Email("onboarding_nudge")>>, Null, "", "end")
      [] p = "tips" ->
            RunStep("send-tips-email", <<Email("new_user_tips")>>, Null, "",
                    "end")
      [] OTHER -> ReturnStmt(Undefined)

\* Array.prototype.shift and Array.prototype.unshift (called with no item):
\* what the call returns and what it leaves in the array
ArrayShift(array) ==
    [returned |-> IF array = <<>> THEN Undefined ELSE Head(array),
     array |-> IF array = <<>> THEN <<>> ELSE Tail(array)]

ArrayUnshift(array) == [returned |-> Num(Len(array)), array |-> array]

\* action._type / action.type: undefined unless the value is an action object
TypeOf(action) == IF action.t = "object" THEN action.type ELSE "undefined"

ActionsOf(workflow) ==
    IF workflow.t = "object" THEN workflow.actions ELSE <<>>

Completed(status) == [t |-> "object", status |-> status]
TypeError == [t |-> "error", name |-> "TypeError"]

\* newAccount of the Sanity blog post
\* while (shouldContinue && workflow.actions.length > 0)
LoopTestIgnoringShouldContinue(l) == Len(l.actions) > 0

LoopTest(l) == Truthy(l.shouldContinue) /\ Len(l.actions) > 0

newAccount(p, l) ==
    CASE p = "top" ->
            RunStep("load workflow from sanity", <<>>, db, "workflow", "init")
      [] p = "init" ->
            LocalStmt([l EXCEPT !.shouldContinue = Bool(Truthy(l.workflow)),
                                !.actions = ActionsOf(l.workflow)], "while")
      [] p = "while" ->
            LocalStmt(l, IF LoopTest(l) THEN "shift" ELSE "return")
      [] p = "shift" ->
            LocalStmt([l EXCEPT !.action = ArrayShift(l.actions).returned,
                                !.actions = ArrayShift(l.actions).array],
                      "switch")
      [] p = "switch" ->
            CASE TypeOf(l.action) = "delay" ->
                    SleepStep(l.action.value, "while")
              [] TypeOf(l.action) = "sendEmail" ->
                    RunStep("send email", <<Email(l.action.template)>>, Null,
                            "", "while")
              [] TypeOf(l.action) = "filter" ->
                    RunStep("filter", <<>>,
                            Bool(TriggerStatus = l.action.value),
                            "shouldContinue", "while")
              [] TypeOf(l.action) = "slack" ->
                    RunStep("send slack message", <<Slack>>, Null, "",
                            "while")
              [] OTHER ->
                    LocalStmt([l EXCEPT !.shouldContinue = Bool(FALSE)],
                              "while")
      [] OTHER ->
            IF l.workflow.t = "object" THEN ReturnStmt(Completed("complete"))
            ELSE ThrowStmt(TypeError)

\* workflowExecutor of the workflow-engine guide
workflowExecutor(p, l) ==
    CASE p = "top" ->
            RunStep("Load workflow from database", <<>>, db, "workflow",
                    "init")
      [] p = "init" ->
            LocalStmt([l EXCEPT !.shouldContinue = Bool(TRUE),
                                !.actions = ActionsOf(l.workflow)], "while")
      [] p = "while" ->
            IF ~Truthy(l.shouldContinue) THEN LocalStmt(l, "return")
            ELSE IF l.workflow.t # "object" THEN ThrowStmt(TypeError)
            ELSE LocalStmt(l, IF Len(l.actions) # 0 THEN "unshift"
                              ELSE "return")
      [] p = "unshift" ->
            LocalStmt([l EXCEPT !.action = ArrayUnshift(l.actions).returned,
                                !.actions = ArrayUnshift(l.actions).array],
                      "switch")
      [] p = "switch" ->
            CASE TypeOf(l.action) = "filter" ->
                    RunStep("filter", <<>>,
                            Bool(TriggerStatus = l.action.value),
                            "shouldContinue", "while")
              [] TypeOf(l.action) = "email" ->
                    RunStep("send-email", <<Email(l.action.template)>>, Null,
                            "", "while")
              [] TypeOf(l.action) = "slack" ->
                    RunStep("slack-notification", <<Slack>>, Null, "",
                            "while")
              [] TypeOf(l.action) = "sleep" ->
                    SleepStep("pause-workflow", "while")
              [] OTHER -> LocalStmt(l, "while")
      [] OTHER -> ReturnStmt(Completed("completed"))

\* the id createAlert() returns
AlertId == Str(<<97, 49>>)

\* the problematic example: createAlert and sendAlertLinkToSlack in one step
createAlertInOneStep(p, l) ==
    CASE p = "top" ->
            RunStep("create-alert", <<AlertCreated, SlackLink(AlertId)>>,
                    Undefined, "", "end")
      [] OTHER -> ReturnStmt(Undefined)

\* the same two calls held in one step, under the ids of the split version
createAlertInTwoStepsMerged(p, l) ==
    CASE p = "top" ->
            RunStep("create-alert", <<AlertCreated, SlackLink(AlertId)>>,
                    AlertId, "alertId", "send")
      [] p = "send" -> RunStep("send-alert-link", <<>>, Undefined, "", "end")
      [] OTHER -> ReturnStmt(Undefined)

\* the split example: create-alert, then send-alert-link
createAlertInTwoSteps(p, l) ==
    CASE p = "top" ->
            RunStep("create-alert", <<AlertCreated>>, AlertId, "alertId",
                    "send")
      [] p = "send" ->
            RunStep("send-alert-link", <<SlackLink(l.alertId)>>, Undefined,
                    "", "end")
      [] OTHER -> ReturnStmt(Undefined)

\* the reminders of the reminder app
ReminderIds == {"reminder_1", "reminder_2"}

ReminderCreated(reminderId) ==
    [name |-> "tasks/reminder.created", data |-> [reminderId |-> reminderId]]

ReminderDeleted(reminderId) ==
    [name |-> "tasks/reminder.deleted", data |-> [reminderId |-> reminderId]]

Push == [kind |-> "push", what |-> "reminderBody"]

\* schedule-reminder of the cancellation guide
scheduleReminder(p, l) ==
    CASE p = "top" -> SleepStep("sleep-until-remind-at-time", "push")
      [] p = "push" -> RunStep("send-reminder-push", <<Push>>, Undefined, "",
                               "end")
      [] OTHER -> ReturnStmt(Undefined)

\* cancelOn: the name of the event that cancels a function's runs
CancelOnEvent(f) ==
    IF f = "scheduleReminder" THEN "tasks/reminder.deleted" ELSE ""

\* cancelOn: if "async.data.reminderId == event.data.reminderId"
CancelIfAnyReminder(async, event) == TRUE

CancelIf(async, event) == async.data.reminderId = event.data.reminderId

\* getRandomUserId(): a different id may come back on every call
RandomUserId == [t |-> "random"]
UserIds == {Num(123), Num(456)}

\* what a callback may compute for the value its step names
Computed(value) == IF value = RandomUserId THEN UserIds ELSE {value}

\* what the callback hands back to step.run
ReturnedBy(instr, v) == IF instr.assign = "" THEN v ELSE Undefined

\* the closure after the callback ran
Assigned(l, instr, v) ==
    IF instr.assign = "" THEN l ELSE [l EXCEPT ![instr.assign] = v]

\* console.log(userId)
IdText(v) ==
    CASE v = Undefined -> "undefined"
      [] v = Num(123) -> "123"
      [] v = Num(456) -> "456"
      [] OTHER -> "null"

\* the right way: userId is returned from step.run
getUserReturned(p, l) ==
    CASE p = "top" -> RunStep("get-user", <<>>, RandomUserId, "userId", "log")
      [] p = "log" -> LogStmt(IdText(l.userId), "end")
      [] OTHER -> ReturnStmt(Undefined)

\* the wrong way: userId is assigned inside the callback
getUserAssigned(p, l) ==
    CASE p = "top" ->
            RunStepAssigning("get-user", <<>>, RandomUserId, "userId", "log")
      [] p = "log" -> LogStmt(IdText(l.userId), "end")
      [] OTHER -> ReturnStmt(Undefined)

Functions ==
    {"exampleFn", "activationEmail", "onboardingEmailDripCampaign",
     "newAccount", "workflowExecutor", "createAlertInOneStep",
     "createAlertInTwoSteps", "scheduleReminder", "getUserReturned",
     "getUserAssigned"}

Handler(p, l) ==
    CASE fn = "exampleFn" -> exampleFn(p, l)
      [] fn = "activationEmail" -> activationEmail(p, l)
      [] fn = "onboardingEmailDripCampaign" ->
            onboardingEmailDripCampaign(p, l)
      [] fn = "newAccount" -> newAccount(p, l)
      [] fn = "createAlertInOneStep" -> createAlertInOneStep(p, l)
      [] fn = "createAlertInTwoSteps" -> createAlertInTwoSteps(p, l)
      [] fn = "scheduleReminder" -> scheduleReminder(p, l)
      [] fn = "getUserReturned" -> getUserReturned(p, l)
      [] fn = "getUserAssigned" -> getUserAssigned(p, l)
      [] OTHER -> workflowExecutor(p, l)

----------------------------------------------------------------------------
(* The step executor, as "How the SDK works with steps" describes it *)

\* 1. the step's id hashed along with the number of earlier calls of that id
StepHash(id, n) == <<id, n>>

CallsOf(id) == Cardinality({k \in 1..Len(seen) : seen[k][1] = id})

\* 2. looking the hash up in the function run state
NeverMemoized(h) == FALSE

Memoized(h) == h \in DOMAIN memo

InHandler == runStatus = "running" /\ pc \notin {"idle", "done"}

Instr == Handler(pc, locals)

InstrHash == StepHash(Instr.id, CallsOf(Instr.id))

AtStep(kinds) == InHandler /\ Instr.kind \in kinds

Bind(l, name, v) == IF name = "" THEN l ELSE [l EXCEPT ![name] = v]

\* one execution of a step callback: the calls it completed, by effect
Attempt(h, outcome, done) == [hash |-> h, outcome |-> outcome, done |-> done]

\* the number of effects a callback can have completed when it throws
FailPoints(effect) == 0..(IF effect = <<>> THEN 0 ELSE Len(effect) - 1)

AttemptsWith(outcomes) ==
    {k \in 1..Len(attempts) : attempts[k].outcome \in outcomes}

\* an invocation that would find the closure of the previous one
StartInvocationKeepingLocals ==
    /\ runStatus = "running"
    /\ pc = "idle"
    /\ pc' = "top"
    /\ seen' = <<>>
    /\ invocations' = invocations + 1
    /\ newSteps' = 0
    /\ UNCHANGED <<fn, trigger, deletions, db, memo, runStatus, pending,
                   locals, attempts, effects, result, abVars, pollVars,
                   encVars>>

\* the executor calls the handler: it runs from the top with fresh locals
StartInvocation ==
    /\ runStatus = "running"
    /\ pc = "idle"
    /\ pc' = "top"
    /\ locals' = NoLocals
    /\ seen' = <<>>
    /\ invocations' = invocations + 1
    /\ newSteps' = 0
    /\ UNCHANGED <<fn, trigger, deletions, db, memo, runStatus, pending, attempts, effects,
                   result, abVars, pollVars, encVars>>

\* a statement outside any step with a visible effect
Log ==
    /\ AtStep({"log"})
    /\ effects' = Append(effects, Instr.effect)
    /\ pc' = Instr.next
    /\ UNCHANGED <<fn, trigger, deletions, db, memo, runStatus, pending, locals, seen,
                   invocations, newSteps, attempts, result, abVars, pollVars, encVars>>

\* assignments, loop tests and branches outside any step
Local ==
    /\ AtStep({"local"})
    /\ locals' = Instr.locals
    /\ pc' = Instr.next
    /\ UNCHANGED <<fn, trigger, deletions, db, memo, runStatus, pending, seen, invocations,
                   newSteps, attempts, effects, result, abVars, pollVars, encVars>>

\* 2.1 the hash is present: the memoized state is returned, the callback,
\* sleep or wait is skipped
ReturnMemoized ==
    /\ AtStep({"run", "sleep", "wait"})
    /\ Memoized(InstrHash)
    /\ locals' = Bind(locals, Instr.bind, memo[InstrHash])
    /\ seen' = Append(seen, InstrHash)
    /\ pc' = Instr.next
    /\ UNCHANGED <<fn, trigger, deletions, db, memo, runStatus, pending, invocations, newSteps,
                   attempts, effects, result, abVars, pollVars, encVars>>

\* a step executed without ending the execution of the function
ExecuteStepAndContinue ==
    /\ AtStep({"run"})
    /\ ~Memoized(InstrHash)
    /\ effects' = effects \o Instr.effect
    /\ \E v \in Computed(Instr.value) :
          /\ memo' = (InstrHash :> ReturnedBy(Instr, v)) @@ memo
          /\ locals' = Bind(Assigned(locals, Instr, v), Instr.bind,
                            ReturnedBy(Instr, v))
    /\ attempts' = Append(attempts, Attempt(InstrHash, "stored", Len(Instr.effect)))
    /\ newSteps' = newSteps + 1
    /\ seen' = Append(seen, InstrHash)
    /\ pc' = Instr.next
    /\ UNCHANGED <<fn, trigger, deletions, db, runStatus, pending, invocations, result, abVars,
                   pollVars, encVars>>

\* 2.2 the hash is not found: the callback is executed and its output is
\* stored in the function run state; the execution of the function ends
ExecuteStep ==
    /\ AtStep({"run"})
    /\ ~Memoized(InstrHash)
    /\ effects' = effects \o Instr.effect
    /\ \E v \in Computed(Instr.value) :
          /\ memo' = (InstrHash :> ReturnedBy(Instr, v)) @@ memo
          /\ locals' = Assigned(locals, Instr, v)
    /\ attempts' = Append(attempts, Attempt(InstrHash, "stored", Len(Instr.effect)))
    /\ newSteps' = newSteps + 1
    /\ pc' = "idle"
    /\ UNCHANGED <<fn, trigger, deletions, db, runStatus, pending, seen,
                   invocations, result, abVars, pollVars, encVars>>

\* the callback throws at one of its calls: the calls before it have had
\* their effect, nothing is stored and the step is retried
StepFails ==
    /\ AtStep({"run"})
    /\ ~Memoized(InstrHash)
    /\ Cardinality(AttemptsWith({"failed"})) < MaxFailures
    /\ \E done \in FailPoints(Instr.effect) :
          /\ effects' = effects \o SubSeq(Instr.effect, 1, done)
          /\ attempts' = Append(attempts, Attempt(InstrHash, "failed", done))
    /\ newSteps' = newSteps + 1
    /\ pc' = "idle"
    /\ UNCHANGED <<fn, trigger, deletions, db, memo, runStatus, pending, locals, seen,
                   invocations, result, abVars, pollVars, encVars>>

\* the callback ran to its end but reporting the completed step failed on
\* the network: nothing is stored and the step is executed again
ReportLost ==
    /\ AtStep({"run"})
    /\ ~Memoized(InstrHash)
    /\ Cardinality(AttemptsWith({"lost"})) < MaxLost
    /\ effects' = effects \o Instr.effect
    /\ \E v \in Computed(Instr.value) : locals' = Assigned(locals, Instr, v)
    /\ attempts' = Append(attempts,
                           Attempt(InstrHash, "lost", Len(Instr.effect)))
    /\ newSteps' = newSteps + 1
    /\ pc' = "idle"
    /\ UNCHANGED <<fn, trigger, deletions, db, memo, runStatus, pending, seen,
                   invocations, result, abVars, pollVars, encVars>>

NoPending == [hash |-> <<>>, event |-> ""]

\* step.sleep found for the first time: the run pauses
StartSleep ==
    /\ AtStep({"sleep"})
    /\ ~Memoized(InstrHash)
    /\ runStatus' = "sleeping"
    /\ pending' = [hash |-> InstrHash, event |-> ""]
    /\ newSteps' = newSteps + 1
    /\ pc' = "idle"
    /\ UNCHANGED <<fn, trigger, deletions, db, memo, locals, seen, invocations, attempts,
                   effects, result, abVars, pollVars, encVars>>

WakeUp ==
    /\ runStatus = "sleeping"
    /\ memo' = (pending.hash :> Null) @@ memo
    /\ runStatus' = "running"
    /\ pending' = NoPending
    /\ UNCHANGED <<fn, trigger, deletions, db, pc, locals, seen, invocations, newSteps,
                   attempts, effects, result, abVars, pollVars, encVars>>

\* step.waitForEvent found for the first time: the run pauses
StartWait ==
    /\ AtStep({"wait"})
    /\ ~Memoized(InstrHash)
    /\ runStatus' = "waiting"
    /\ pending' = [hash |-> InstrHash, event |-> Instr.event]
    /\ newSteps' = newSteps + 1
    /\ pc' = "idle"
    /\ UNCHANGED <<fn, trigger, deletions, db, memo, locals, seen, invocations, attempts,
                   effects, result, abVars, pollVars, encVars>>

WaitEvents == {"app/post.created", "app/onboarding.completed"}

ReceivedEvent(name, user) ==
    [t |-> "object", name |-> name, userId |-> user]

\* match: "data.user.id" / "data.userId": the field is equal in both events
Matches(name, user) == name = pending.event /\ user = TriggerUser

\* an event is received while the run waits; the promise resolves with the
\* received event when it is the awaited one
EventReceived(name, user) ==
    /\ runStatus = "waiting"
    /\ Matches(name, user)
    /\ memo' = (pending.hash :> ReceivedEvent(name, user)) @@ memo
    /\ runStatus' = "running"
    /\ pending' = NoPending
    /\ UNCHANGED <<fn, trigger, deletions, db, pc, locals, seen, invocations, newSteps,
                   attempts, effects, result, abVars, pollVars, encVars>>

\* the event is not received within the timeout: the promise resolves null
WaitTimeout ==
    /\ runStatus = "waiting"
    /\ memo' = (pending.hash :> Null) @@ memo
    /\ runStatus' = "running"
    /\ pending' = NoPending
    /\ UNCHANGED <<fn, trigger, deletions, db, pc, locals, seen, invocations, newSteps,
                   attempts, effects, result, abVars, pollVars, encVars>>

\* the handler returns: the function completes
Return ==
    /\ AtStep({"return"})
    /\ runStatus' = "completed"
    /\ result' = Instr.value
    /\ pc' = "done"
    /\ UNCHANGED <<fn, trigger, deletions, db, memo, pending, locals, seen, invocations,
                   newSteps, attempts, effects, abVars, pollVars, encVars>>

\* the handler throws outside any step: the function fails
Throw ==
    /\ AtStep({"throw"})
    /\ runStatus' = "failed"
    /\ result' = Instr.error
    /\ pc' = "done"
    /\ UNCHANGED <<fn, trigger, deletions, db, memo, pending, locals, seen, invocations,
                   newSteps, attempts, effects, abVars, pollVars, encVars>>

\* an event named by cancelOn is sent: a run that is not over and whose
\* triggering event satisfies the `if` expression is marked cancelled, its
\* sleep ends without the handler being called again
CancelEventReceived(async) ==
    /\ async.name = CancelOnEvent(fn)
    /\ pc \in {"idle", "done"}
    /\ \A k \in 1..Len(deletions) : deletions[k].event # async
    /\ deletions' = Append(deletions, [event |-> async, found |-> runStatus])
    /\ runStatus' =
          IF runStatus \in {"running", "sleeping", "waiting"}
             /\ CancelIf(async, trigger)
          THEN "cancelled" ELSE runStatus
    /\ UNCHANGED <<fn, trigger, db, memo, pending, pc, locals, seen,
                   invocations, newSteps, attempts, effects, result, abVars,
                   pollVars, encVars>>

Workflows(actions) ==
    {Workflow(a) : a \in SeqsUpTo(actions, MaxActions)} \cup {Null}

InitRun ==
    /\ fn \in Functions
    /\ db \in CASE fn = "newAccount" -> Workflows(SanityActions)
                [] fn = "workflowExecutor" -> Workflows(GuideActions)
                [] OTHER -> {Null}
    /\ trigger \in IF fn = "scheduleReminder"
                    THEN {ReminderCreated(r) : r \in ReminderIds}
                    ELSE {Undefined}
    /\ deletions = <<>>
    /\ memo = <<>>
    /\ runStatus = "running"
    /\ pending = NoPending
    /\ pc = "idle"
    /\ locals = NoLocals
    /\ seen = <<>>
    /\ invocations = 0
    /\ newSteps = 0
    /\ attempts = <<>>
    /\ effects = <<>>
    /\ result = Undefined
    /\ AbIdle
    /\ PollIdle
    /\ EncIdle

HandlerStep ==
    \/ Log
    \/ Local
    \/ ReturnMemoized
    \/ ExecuteStep
    \/ StartSleep
    \/ StartWait
    \/ Return
    \/ Throw

NextRun ==
    \/ StartInvocation
    \/ HandlerStep
    \/ StepFails
    \/ ReportLost
    \/ WakeUp
    \/ \E name \in WaitEvents, user \in Users : EventReceived(name, user)
    \/ WaitTimeout
    \/ \E r \in ReminderIds : CancelEventReceived(ReminderDeleted(r))

SpecRun == InitRun /\ [][NextRun]_vars

\* The JavaScript runtime runs a started handler until it returns, throws or
\* reaches a step, and the executor calls a runnable function again.
SpecRunFair ==
    SpecRun /\ WF_vars(StartInvocation) /\ WF_vars(HandlerStep)
            /\ WF_vars(WakeUp) /\ WF_vars(WaitTimeout)

----------------------------------------------------------------------------
(* Properties of the step functions *)

CountEffects(e) == Cardinality({k \in 1..Len(effects) : effects[k] = e})

Sent(template) == CountEffects(Email(template)) > 0

AttemptsOf(h, outcomes) ==
    {k \in AttemptsWith(outcomes) : attempts[k].hash = h}

IsWorkflowRun == fn = "workflowExecutor" /\ db # Null

\* steps other than the one that loads the workflow
ActionSteps == {h \in DOMAIN memo : h[1] \notin
                    {"Load workflow from database",
                     "load workflow from sanity"}}

AFilterWasFalse ==
    \E h \in DOMAIN memo : h[1] = "filter" /\ memo[h] = Bool(FALSE)

\* C5: for every finite workflow.actions list the loop of workflowExecutor
\* terminates, and the function returns "completed" with every action of
\* the list executed or a filter evaluated to false.
WorkflowExecutorTerminates ==
    IsWorkflowRun ~>
        (/\ runStatus = "completed"
         /\ \/ Cardinality(ActionSteps) = Len(ActionsOf(db))
            \/ AFilterWasFalse)

\* the effects an action list has when its actions are executed in order
RECURSIVE EffectsOf(_)
EffectsOf(actions) ==
    IF actions = <<>> THEN <<>>
    ELSE (CASE Head(actions).type \in {"sendEmail", "email"} ->
                    <<Email(Head(actions).template)>>
            [] Head(actions).type = "slack" -> <<Slack>>
            [] OTHER -> <<>>) \o EffectsOf(Tail(actions))

IsPrefix(p, q) == Len(p) <= Len(q) /\ p = SubSeq(q, 1, Len(p))

InWorkflowLoop ==
    /\ fn \in {"newAccount", "workflowExecutor"}
    /\ InHandler
    /\ pc = "switch"

\* C6: both workflow loops take the actions off workflow.actions one at a
\* time from the front, so the actions are executed in list order and each
\* at most once per run.
ActionsTakenFromFrontInOrder ==
    /\ InWorkflowLoop =>
            /\ Len(locals.actions) < Len(db.actions)
            /\ locals.action
                    = db.actions[Len(db.actions) - Len(locals.actions)]
    /\ (fn \in {"newAccount", "workflowExecutor"} /\ db # Null) =>
            IsPrefix(effects, EffectsOf(db.actions))

NoDuplicates(q) == \A m, n \in 1..Len(q) : q[m] = q[n] => m = n

ExampleFnCompleted == fn = "exampleFn" /\ runStatus = "completed"

IsWaitingFn == fn \in {"activationEmail", "onboardingEmailDripCampaign"}

WaitHash ==
    IF fn = "activationEmail" THEN StepHash("wait-for-post-creation", 0)
    ELSE StepHash("wait-for-onboarding", 0)

TimeoutEmail ==
    IF fn = "activationEmail" THEN "reminder" ELSE "onboarding_nudge"

WaitStarted == runStatus = "waiting" \/ WaitHash \in DOMAIN memo

\* C9: in activation-email and onboarding-email-drip-campaign the welcome
\* email is sent before the wait; the reminder / nudge email is sent exactly
\* when the wait resolved to null and the tips email exactly when it
\* resolved to the event; no run sends both branch emails.
BranchEmailFollowsWaitResult ==
    IsWaitingFn =>
        /\ WaitStarted => Sent("welcome")
        /\ Sent(TimeoutEmail) =>
                WaitHash \in DOMAIN memo /\ memo[WaitHash] = Null
        /\ Sent("new_user_tips") =>
                /\ fn = "onboardingEmailDripCampaign"
                /\ WaitHash \in DOMAIN memo /\ memo[WaitHash] # Null
        /\ ~(Sent(TimeoutEmail) /\ Sent("new_user_tips"))
        /\ runStatus = "completed" =>
                /\ Sent(TimeoutEmail) <=> memo[WaitHash] = Null
                /\ fn = "onboardingEmailDripCampaign" =>
                        (Sent("new_user_tips") <=> memo[WaitHash] # Null)

\* the drip campaign completed after the wait timed out and the nudge step
\* needed a second attempt
NudgeSentAfterTimeoutAndRetry ==
    /\ fn = "onboardingEmailDripCampaign"
    /\ runStatus = "completed"
    /\ Sent("onboarding_nudge")
    /\ AttemptsOf(StepHash("send-onboarding-nudge-email", 0), {"failed"}) # {}

CreateAlertHash == StepHash("create-alert", 0)

\* executions of a step callback that completed at least n of its calls
RanPast(h, n) ==
    {k \in AttemptsOf(h, {"stored", "lost", "failed"}) : attempts[k].done >= n}

SleepUntilHash == StepHash("sleep-until-remind-at-time", 0)

\* C15: a run of schedule-reminder is cancelled only by a deletion event
\* whose reminderId is that of its triggering event, and a run cancelled
\* while it slept has never executed send-reminder-push.
CancelledOnlyByOwnReminderDeletion ==
    /\ runStatus = "cancelled" =>
          /\ fn = "scheduleReminder"
          /\ \E k \in 1..Len(deletions) :
                /\ deletions[k].event = ReminderDeleted(trigger.data.reminderId)
                /\ deletions[k].found \in {"running", "sleeping"}
    /\ (runStatus = "cancelled" /\ pending.hash = SleepUntilHash) =>
          /\ CountEffects(Push) = 0
          /\ AttemptsOf(StepHash("send-reminder-push", 0),
                        {"stored", "lost", "failed"}) = {}
          /\ pc = "idle"
    /\ (/\ fn = "scheduleReminder"
        /\ \A k \in 1..Len(deletions) :
              deletions[k].event.data.reminderId # trigger.data.reminderId)
          => runStatus # "cancelled"

\* while the run for reminder_1 slept, the deletion of reminder_2 arrived
\* and left it asleep, then the deletion of reminder_1 cancelled it
CancelledAsleepAfterOtherDeletion ==
    /\ runStatus = "cancelled"
    /\ trigger = ReminderCreated("reminder_1")
    /\ deletions = <<[event |-> ReminderDeleted("reminder_2"),
                      found |-> "sleeping"],
                     [event |-> ReminderDeleted("reminder_1"),
                      found |-> "sleeping"]>>

\* the id of the step each loop runs for an action, "" when it runs none
StepIdOf(action) ==
    IF fn = "newAccount"
    THEN CASE action.type = "delay" -> action.value
           [] action.type = "sendEmail" -> "send email"
           [] action.type = "filter" -> "filter"
           [] action.type = "slack" -> "send slack message"
           [] OTHER -> ""
    ELSE CASE action.type = "filter" -> "filter"
           [] action.type = "email" -> "send-email"
           [] action.type = "slack" -> "slack-notification"
           [] action.type = "sleep" -> "pause-workflow"
           [] OTHER -> ""

\* the position of the first filter of workflow.actions that is false for
\* the triggering event
IsFalseFilter(action) ==
    action.type = "filter" /\ action.value # TriggerStatus

FirstFalseFilter ==
    CHOOSE j \in 1..Len(db.actions) :
        /\ IsFalseFilter(db.actions[j])
        /\ \A k \in 1..(j - 1) : ~IsFalseFilter(db.actions[k])

\* the number of actions among the first j that run a step with a given id
StepsUpTo(j, id) ==
    Cardinality({k \in 1..j : StepIdOf(db.actions[k]) = id})

\* every step the run executed, attempted, or is paused on, the step that
\* loads the workflow aside
ActionStepsTouched ==
    {h \in DOMAIN memo \cup {attempts[k].hash : k \in 1..Len(attempts)}
               \cup (IF pending.hash = <<>> THEN {} ELSE {pending.hash}) :
        h[1] \notin {"Load workflow from database",
                     "load workflow from sanity"}}

\* C19: once a filter step has returned false, every email, Slack, filter
\* and sleep step the run has executed, attempted or is paused on belongs to
\* an action up to that filter: no action after it is executed.  This holds
\* in newAccount; workflowExecutor never reaches a filter or any other
\* action step (its loop takes nothing off workflow.actions).
NoActionAfterFalseFilter ==
    /\ (fn \in {"newAccount", "workflowExecutor"} /\ AFilterWasFalse) =>
          /\ \E j \in 1..Len(db.actions) : IsFalseFilter(db.actions[j])
          /\ \A h \in ActionStepsTouched :
                h[2] < StepsUpTo(FirstFalseFilter, h[1])
    /\ fn = "workflowExecutor" => ActionStepsTouched = {}

\* newAccount completed a workflow whose false filter comes first: the
\* email after it was not sent
EmailAfterFalseFilterNotSent ==
    /\ fn = "newAccount"
    /\ runStatus = "completed"
    /\ db.t = "object"
    /\ db.actions = <<Action("filter", "lost", ""),
                      Action("sendEmail", "", "welcome")>>
    /\ memo[StepHash("filter", 0)] = Bool(FALSE)
    /\ effects = <<>>

\* what the switch of workflowExecutor does for an action: the kind of the
\* statement its case runs, "local" when no case matches
SwitchCaseKind(action) ==
    workflowExecutor("switch", [NoLocals EXCEPT !.action = action]).kind

\* C20: every action of the workflow the database holds is handled by a case
\* of workflowExecutor's switch, and the case of a "wait" action is
\* step.sleep.
EveryActionTypeHasACase ==
    IsWorkflowRun =>
        \A k \in 1..Len(db.actions) :
            /\ SwitchCaseKind(db.actions[k]) \in {"run", "sleep"}
            /\ db.actions[k].type = "wait" =>
                  SwitchCaseKind(db.actions[k]) = "sleep"

\* C21: a run of newAccount for an account without a workflow executes no
\* action and, once over, has completed with a result value and not failed
\* with an error.
NoWorkflowCompletesWithResult ==
    (fn = "newAccount" /\ db = Null) =>
        /\ ActionStepsTouched = {}
        /\ effects = <<>>
        /\ pc = "done" =>
              /\ runStatus = "completed"
              /\ result.t = "object"

GetUserHash == StepHash("get-user", 0)

\* the current invocation met get-user and got its memoized result
GetUserSkipped ==
    InHandler /\ \E k \in 1..Len(seen) : seen[k] = GetUserHash

\* C23: in every invocation that finds get-user memoized the callback is
\* skipped, so a closure variable assigned inside the callback is undefined
\* there (and console.log prints undefined), while a variable bound to the
\* value returned from step.run holds the one memoized value in every such
\* invocation, whatever the callback computed in attempts that were lost.
AssignedInCallbackIsUndefinedLater ==
    /\ fn = "getUserAssigned" =>
          /\ GetUserSkipped => locals.userId = Undefined
          /\ \A k \in 1..Len(effects) : effects[k] = LogLine("undefined")
          /\ pc = "log" => GetUserSkipped
    /\ fn = "getUserReturned" =>
          /\ GetUserSkipped =>
                /\ locals.userId = memo[GetUserHash]
                /\ locals.userId \in UserIds
          /\ \A k \in 1..Len(effects) :
                /\ GetUserHash \in DOMAIN memo
                /\ effects[k] = LogLine(IdText(memo[GetUserHash]))

\* the callback that assigns userId ran twice (one report was lost) and the
\* function then completed having printed undefined
PrintedUndefinedAfterCallbackRanTwice ==
    /\ fn = "getUserAssigned"
    /\ runStatus = "completed"
    /\ Cardinality(AttemptsOf(GetUserHash, {"stored", "lost"})) = 2
    /\ effects = <<LogLine("undefined")>>

----------------------------------------------------------------------------
(* getRunOutput: polling the REST API for the run an event triggered *)

MaxRuns == 2        \* runs one event may trigger (fan-out)
MaxPolls == 3       \* getRuns calls explored in one getRunOutput call

RunStatuses == {"Running", "Completed", "Failed", "Cancelled"}

Run(status) == [t |-> "object", status |-> status]

\* what getRuns may return: json.data, the runs the event triggered so far
RunLists == SeqsUpTo({Run(st) : st \in RunStatuses}, MaxRuns)

Error(message) == [t |-> "error", message |-> message]

\* new Error(`Function run ${runs[0].status}`)
FunctionRunError(status) == Error("Function run " \o status)

\* the status a getRuns result shows for runs[0]
StatusOf(list) == IF list = <<>> THEN "none" ELSE list[1].status

\* runs[0].status === "Failed" || runs[0].status === "Cancelled"
IsFailedFailedOnly(status) == status = "Failed"

IsFailed(status) == status = "Failed" \/ status = "Cancelled"

\* runs[0].status !== "Completed"
LoopWhileRunning(list) == list[1].status = "Running"

LoopCondition(list) == list[1].status # "Completed"

\* let runs = await getRuns(eventId)
FirstFetch ==
    /\ pollPc = "start"
    /\ \E list \in RunLists :
          /\ runs' = list
          /\ observed' = Append(observed, StatusOf(list))
    /\ polls' = polls + 1
    /\ pollPc' = "while"
    /\ UNCHANGED <<output, abVars, runVars, encVars>>

\* the loop test, and the return that follows the loop; reading the status
\* of runs[0] throws when the list is empty
WhileTest ==
    /\ pollPc = "while"
    /\ IF runs = <<>>
       THEN pollPc' = "threw" /\ output' = Error("TypeError")
       ELSE IF LoopCondition(runs)
            THEN pollPc' = "sleep" /\ UNCHANGED output
            ELSE pollPc' = "returned" /\ output' = runs[1]
    /\ UNCHANGED <<runs, polls, observed, abVars, runVars, encVars>>

\* the one second pause and runs = await getRuns(eventId)
SleepAndFetch ==
    /\ pollPc = "sleep"
    /\ polls < MaxPolls
    /\ \E list \in RunLists :
          /\ runs' = list
          /\ observed' = Append(observed, StatusOf(list))
    /\ polls' = polls + 1
    /\ pollPc' = "check"
    /\ UNCHANGED <<output, abVars, runVars, encVars>>

\* if (status === "Failed" || status === "Cancelled") throw
CheckFailed ==
    /\ pollPc = "check"
    /\ IF runs = <<>>
       THEN pollPc' = "threw" /\ output' = Error("TypeError")
       ELSE IF IsFailed(runs[1].status)
            THEN pollPc' = "threw" /\ output' = FunctionRunError(runs[1].status)
            ELSE pollPc' = "while" /\ UNCHANGED output
    /\ UNCHANGED <<runs, polls, observed, abVars, runVars, encVars>>

InitPoll ==
    /\ pollPc = "start"
    /\ runs = <<>>
    /\ polls = 0
    /\ observed = <<>>
    /\ output = Undefined
    /\ AbIdle
    /\ RunIdle
    /\ EncIdle

NextPoll ==
    \/ FirstFetch
    \/ WhileTest
    \/ SleepAndFetch
    \/ CheckFailed

SpecPoll == InitPoll /\ [][NextPoll]_vars

\* C10: whatever statuses getRuns returns, a run returned by getRunOutput
\* has status "Completed".
ReturnedRunIsCompleted ==
    pollPc = "returned" => output.status = "Completed"

\* getRunOutput returned after it had polled in the loop
ReturnedAfterPolling == pollPc = "returned" /\ polls >= 2

\* the statuses that stand for a run that did not succeed
FailedOrCancelled == {"Failed", "Cancelled"}

\* C11 as stated: once getRunOutput has ended, every Failed or Cancelled
\* status it observed, the one of the first fetch included, made it throw
\* the error naming that status.
ObservedFailureIsThrown ==
    pollPc \in {"returned", "threw"} =>
        \A i \in 1..Len(observed) :
            observed[i] \in FailedOrCancelled =>
                /\ pollPc = "threw"
                /\ output = Error("Function run " \o observed[i])

\* C11: a Failed or Cancelled status fetched inside the loop makes
\* getRunOutput throw the error naming it (the loop never passes such a
\* status), an error naming a status is thrown for the status last fetched
\* in the loop only, and no Failed or Cancelled run is ever returned; the
\* status of the first fetch is not tested, the function sleeps and fetches
\* again before it can throw.
FailureInLoopIsThrown ==
    /\ (polls >= 2 /\ pollPc \in {"while", "sleep", "returned"}) =>
           observed[polls] \notin FailedOrCancelled
    /\ (pollPc = "threw" /\ output # Error("TypeError")) =>
           /\ polls >= 2
           /\ observed[polls] \in FailedOrCancelled
           /\ output = Error("Function run " \o observed[polls])
    /\ pollPc = "returned" => output.status \notin FailedOrCancelled
    /\ (polls = 1 /\ observed[1] \in FailedOrCancelled) =>
           pollPc \in {"while", "sleep"}

\* the run was Cancelled at the first fetch and still Cancelled at the
\* second, and getRunOutput threw the error naming Cancelled
ThrewForRunCancelledAtFirstFetch ==
    /\ pollPc = "threw"
    /\ polls = 2
    /\ observed = <<"Cancelled", "Cancelled">>
    /\ output = Error("Function run Cancelled")

\* C22: when the first fetch shows no run yet, getRunOutput does not end on
\* that fetch but goes on polling, and it never fails on the missing run.
EmptyFirstFetchKeepsPolling ==
    (Len(observed) >= 1 /\ observed[1] = "none") =>
        /\ polls = 1 => pollPc \in {"while", "sleep"}
        /\ pollPc = "threw" => output # Error("TypeError")

----------------------------------------------------------------------------
(* The example step encryption middleware: JSON text, encrypt and decrypt *)

\* JSON values beyond the primitives: arrays and objects with ordered keys
Arr(items) == [t |-> "array", items |-> items]
Obj(entries) == [t |-> "object", entries |-> entries]

\* typeof value
JsTypeof(v) == IF v.t \in {"null", "array"} THEN "object" ELSE v.t

\* key in value, for an object value
HasKey(v, key) == \E i \in 1..Len(v.entries) : v.entries[i][1] = key

\* value[key], for a key the object has
Get(v, key) ==
    LET i == CHOOSE j \in 1..Len(v.entries) : v.entries[j][1] = key
    IN  v.entries[i][2]

\* a && b
And(a, b) == IF Truthy(a) THEN b ELSE a

\* character codes of the JSON literals and of the middleware's keys
CharsNull == <<110, 117, 108, 108>>
CharsTrue == <<116, 114, 117, 101>>
CharsFalse == <<102, 97, 108, 115, 101>>
CharsData == <<100, 97, 116, 97>>
encryptionMarker == <<95, 95, 69, 78, 67, 82, 89, 80, 84, 69, 68, 95, 95>>

SyntaxError == Error("SyntaxError")

\* decimal digits of a natural number
RECURSIVE Digits(_)
Digits(n) ==
    IF n < 10 THEN <<48 + n>> ELSE Digits(n \div 10) \o <<48 + (n % 10)>>

\* a JSON string literal: quotes and backslashes are escaped
EscapeNothing(chars) == chars

RECURSIVE Escape(_)
Escape(chars) ==
    IF chars = <<>> THEN <<>>
    ELSE (IF Head(chars) \in {34, 92} THEN <<92, Head(chars)>>
          ELSE <<Head(chars)>>) \o Escape(Tail(chars))

Quote(chars) == <<34>> \o Escape(chars) \o <<34>>

\* JSON.stringify(value), for a JSON value
RECURSIVE JSONStringify(_), StringifyItems(_), StringifyEntries(_)
JSONStringify(v) ==
    CASE v.t = "null" -> CharsNull
      [] v.t = "boolean" -> IF v.b THEN CharsTrue ELSE CharsFalse
      [] v.t = "number" ->
            IF v.n < 0 THEN <<45>> \o Digits(0 - v.n) ELSE Digits(v.n)
      [] v.t = "string" -> Quote(v.chars)
      [] v.t = "array" -> <<91>> \o StringifyItems(v.items) \o <<93>>
      [] v.t = "object" -> <<123>> \o StringifyEntries(v.entries) \o <<125>>

StringifyItems(items) ==
    IF items = <<>> THEN <<>>
    ELSE JSONStringify(Head(items))
         \o (IF Len(items) > 1 THEN <<44>> \o StringifyItems(Tail(items))
             ELSE <<>>)

StringifyEntries(entries) ==
    IF entries = <<>> THEN <<>>
    ELSE Quote(Head(entries)[1]) \o <<58>> \o JSONStringify(Head(entries)[2])
         \o (IF Len(entries) > 1 THEN <<44>> \o StringifyEntries(Tail(entries))
             ELSE <<>>)

\* the character at a position of a text, 0 past its end
CharAt(text, i) == IF i \in 1..Len(text) THEN text[i] ELSE 0

StartsWith(text, i, literal) ==
    /\ i + Len(literal) - 1 <= Len(text)
    /\ SubSeq(text, i, i + Len(literal) - 1) = literal

Parsed(value, next) == [value |-> value, next |-> next]

\* the characters of a string literal, from the position after its quote
RECURSIVE ParseChars(_, _, _)
ParseChars(text, i, acc) ==
    CASE CharAt(text, i) = 34 -> Parsed(Str(acc), i + 1)
      [] CharAt(text, i) = 92 /\ CharAt(text, i + 1) \in {34, 92} ->
            ParseChars(text, i + 2, Append(acc, text[i + 1]))
      [] CharAt(text, i) \in {0, 92} -> Parsed(SyntaxError, i)
      [] OTHER -> ParseChars(text, i + 1, Append(acc, text[i]))

RECURSIVE ParseDigits(_, _, _)
ParseDigits(text, i, acc) ==
    IF CharAt(text, i) \in 48..57
    THEN ParseDigits(text, i + 1, 10 * acc + (text[i] - 48))
    ELSE Parsed(Num(acc), i)

\* one JSON value read from a position of a text
RECURSIVE ParseValue(_, _), ParseElements(_, _, _), ParseMembers(_, _, _)
ParseValue(text, i) ==
    LET c == CharAt(text, i)
    IN  CASE StartsWith(text, i, CharsNull) -> Parsed(Null, i + 4)
          [] StartsWith(text, i, CharsTrue) -> Parsed(Bool(TRUE), i + 4)
          [] StartsWith(text, i, CharsFalse) -> Parsed(Bool(FALSE), i + 5)
          [] c = 34 -> ParseChars(text, i + 1, <<>>)
          [] c \in 48..57 -> ParseDigits(text, i, 0)
          [] c = 45 /\ CharAt(text, i + 1) \in 48..57 ->
                LET r == ParseDigits(text, i + 1, 0)
                IN  Parsed(Num(0 - r.value.n), r.next)
          [] c = 91 ->
                IF CharAt(text, i + 1) = 93 THEN Parsed(Arr(<<>>), i + 2)
                ELSE ParseElements(text, i + 1, <<>>)
          [] c = 123 ->
                IF CharAt(text, i + 1) = 125 THEN Parsed(Obj(<<>>), i + 2)
                ELSE ParseMembers(text, i + 1, <<>>)
          [] OTHER -> Parsed(SyntaxError, i)

ParseElements(text, i, acc) ==
    LET r == ParseValue(text, i)
    IN  CASE r.value.t = "error" -> r
          [] CharAt(text, r.next) = 44 ->
                ParseElements(text, r.next + 1, Append(acc, r.value))
          [] CharAt(text, r.next) = 93 ->
                Parsed(Arr(Append(acc, r.value)), r.next + 1)
          [] OTHER -> Parsed(SyntaxError, r.next)

ParseMembers(text, i, acc) ==
    LET k == IF CharAt(text, i) = 34 THEN ParseChars(text, i + 1, <<>>)
             ELSE Parsed(SyntaxError, i)
        r == IF k.value.t = "string" /\ CharAt(text, k.next) = 58
             THEN ParseValue(text, k.next + 1)
             ELSE Parsed(SyntaxError, k.next)
    IN  CASE r.value.t = "error" -> r
          [] CharAt(text, r.next) = 44 ->
                ParseMembers(text, r.next + 1,
                             Append(acc, <<k.value.chars, r.value>>))
          [] CharAt(text, r.next) = 125 ->
                Parsed(Obj(Append(acc, <<k.value.chars, r.value>>)),
                       r.next + 1)
          [] OTHER -> Parsed(SyntaxError, r.next)

\* JSON.parse(text): the whole text must be one value
JSONParse(text) ==
    LET r == ParseValue(text, 1)
    IN  IF r.value.t # "error" /\ r.next = Len(text) + 1 THEN r.value
        ELSE SyntaxError

\* text.split("").reverse().join("")
Reverse(text) == [i \in 1..Len(text) |-> text[Len(text) + 1 - i]]

MaxSteps == 2       \* steps one function run executes

\* typeof value === "object" && value !== null && marker in value &&
\* value[marker] === true && "data" in value && typeof value.data === "string"
isEncryptedValue(value) ==
    /\ JsTypeof(value) = "object"
    /\ value.t = "object"
    /\ HasKey(value, encryptionMarker)
    /\ Get(value, encryptionMarker) = Bool(TRUE)
    /\ HasKey(value, CharsData)
    /\ JsTypeof(Get(value, CharsData)) = "string"

encrypt(value) ==
    Obj(<< <<encryptionMarker, Bool(TRUE)>>,
           <<CharsData, Str(Reverse(JSONStringify(value)))>> >>)

decrypt(value) ==
    IF isEncryptedValue(value)
    THEN JSONParse(Reverse(Get(value, CharsData).chars))
    ELSE value

\* one entry of the memoized step state a function run carries
StepState(id, data) == [id |-> id, data |-> data]

\* onFunctionRun.transformInput: steps.map(step => ({...step, data: ...}))
transformInput(steps) ==
    [i \in 1..Len(steps) |->
        [steps[i] EXCEPT !.data = And(@, decrypt(@))]]

\* onFunctionRun.transformOutput
transformOutput(ctx) ==
    IF ~Truthy(ctx.step) THEN Undefined
    ELSE [t |-> "object",
          result |-> [data |-> And(ctx.result.data,
                                   encrypt(ctx.result.data))]]

\* what the SDK sends: the hook's result when it returned one
Emitted(ctx) ==
    LET out == transformOutput(ctx)
    IN  IF out.t = "undefined" THEN ctx.result.data ELSE out.result.data

\* JSON-serialisable values a step or a function may return
JsonValues ==
    { Null, Bool(TRUE), Bool(FALSE), Num(0), Num(7), Num(120), Num(0 - 3),
      Str(<<>>), Str(<<97, 98>>), Str(<<34>>), Str(<<92, 110>>),
      Str(<<93, 49, 91>>),
      Arr(<<>>), Arr(<<Num(12), Str(<<97>>)>>), Arr(<<Arr(<<>>), Null>>),
      Obj(<<>>),
      Obj(<< <<<<97>>, Num(1)>>, <<<<98>>, Arr(<<Bool(TRUE)>>)>> >>),
      Obj(<< <<<<117>>, Obj(<< <<<<34>>, Str(<<125>>)>> >>)>> >>),
      Obj(<< <<encryptionMarker, Bool(TRUE)>>,
             <<CharsData, Str(<<49>>)>> >>) }

\* a step callback may also return nothing
StepValues == JsonValues \cup {Undefined}

\* a step callback returned: its result goes through transformOutput
StepReturns(v) ==
    /\ sentReturn = Undefined
    /\ Len(ctxSteps) = Len(sentSteps)
    /\ Len(stepResults) < MaxSteps
    /\ stepResults' = Append(stepResults, v)
    /\ sentSteps' =
          Append(sentSteps,
                 StepState(Len(sentSteps) + 1,
                           Emitted([step |-> Obj(<<>>),
                                    result |-> [data |-> v]])))
    /\ UNCHANGED <<ctxSteps, sentReturn, abVars, runVars, pollVars>>

\* the next invocation: the stored step data goes through transformInput
NextInvocation ==
    /\ sentReturn = Undefined
    /\ Len(ctxSteps) < Len(sentSteps)
    /\ ctxSteps' = transformInput(sentSteps)
    /\ UNCHANGED <<stepResults, sentSteps, sentReturn, abVars, runVars,
                   pollVars>>

\* the handler returned: ctx.step is not set for the function's own result
FunctionReturns(v) ==
    /\ sentReturn = Undefined
    /\ Len(ctxSteps) = Len(sentSteps)
    /\ sentReturn' = Emitted([step |-> Undefined, result |-> [data |-> v]])
    /\ UNCHANGED <<stepResults, sentSteps, ctxSteps, abVars, runVars,
                   pollVars>>

InitEnc ==
    /\ EncIdle
    /\ AbIdle
    /\ RunIdle
    /\ PollIdle

NextEnc ==
    \/ \E v \in StepValues : StepReturns(v)
    \/ NextInvocation
    \/ \E v \in JsonValues : FunctionReturns(v)

SpecEnc == InitEnc /\ [][NextEnc]_vars

\* C12: decrypt(encrypt(v)) is v for the JSON-serialisable value v each step
\* returned, and the step data the next invocation receives from
\* transformInput is the value the step returned.
DecryptRestoresStepData ==
    /\ \A i \in 1..Len(stepResults) :
          stepResults[i] \in JsonValues =>
              decrypt(encrypt(stepResults[i])) = stepResults[i]
    /\ \A i \in 1..Len(ctxSteps) : ctxSteps[i].data = stepResults[i]

\* two steps were restored in a later invocation: a string holding a quote
\* and an object whose own shape is that of an encrypted value
QuoteAndMarkedObjectRestored ==
    /\ Len(ctxSteps) = 2
    /\ stepResults[1] = Str(<<34>>)
    /\ isEncryptedValue(stepResults[2])
    /\ isEncryptedValue(sentSteps[1].data)
    /\ sentSteps[2].data # stepResults[2]

\* C13: every step result that went through transformOutput left the server
\* as an object marked __ENCRYPTED__.
EveryStepResultLeavesEncrypted ==
    \A i \in 1..Len(sentSteps) : isEncryptedValue(sentSteps[i].data)

====
